---- MODULE Spec2Model ----
(***************************************************************************)
(* Model of the Moltly agent server (server/scripts/agent_server.js): a    *)
(* WebSocket relay pairing one "game" socket and one "agent" socket per    *)
(* registered agent id.  One action per event handler of the server; the   *)
(* single-threaded event loop runs each handler to completion, so each     *)
(* handler is one atomic step.                                             *)
(***************************************************************************)
EXTENDS Integers, Sequences, FiniteSets, TLC

(***************************************************************************)
(* Bounds of the model.                                                    *)
(***************************************************************************)
\* sockets that ever connect during a run
MaxSockets == 3
\* last instant of Date.now() (ms since the server started) that is explored
MaxTime == 3000
\* messages one connection may have counted before it authenticates
MaxPending == 2

(***************************************************************************)
(* Configuration (environment variables, fixed at startup).  The model     *)
(* runs the server as started with MAX_CONNECTIONS=2 HEARTBEAT_MS=2000     *)
(* RATE_LIMIT_GAME=2 RATE_LIMIT_AGENT=3; the defaults are 2000, 30000, 25  *)
(* and 65.                                                                 *)
(***************************************************************************)
MAX_CONNECTIONS == 2
HEARTBEAT_MS == 2000
RATE_LIMIT_GAME == 2
RATE_LIMIT_AGENT == 3
\* the literal 1000 of the rate limiter's window test
RATE_WINDOW_MS == 1000

\* close codes used by the server
CODE_NORMAL == 1000
CODE_CAPACITY == 1013
CODE_EVICTED == 4000
\* closeCode of a socket the server has not closed
CODE_NONE == 0

\* JavaScript null for a socket reference, an agent id and a role
NoSocket == 0
NoId == "null"
NoRole == "null"

Sockets == 1..MaxSockets
\* agent ids a registration may carry
Ids == {"x", "y"}

(***************************************************************************)
(* Fingerprint: signChallenge / verifyChallenge.  Strings are sequences of *)
(* char codes.  The 32-bit hash is kept as <<high, low>> 16-bit halves of  *)
(* its two's complement bit pattern, so that the wrap of `hash & hash` is  *)
(* computed and not assumed away.                                          *)
(***************************************************************************)
Half == 2^16

\* hash = ((hash << 5) - hash) + char; hash = hash & hash
HashStep(hash, char) ==
  LET lo == hash[2] * 31 + char
      hi == hash[1] * 31 + (lo \div Half)
  IN  <<hi % Half, lo % Half>>

RECURSIVE HashLoop(_, _, _)
\* for (let i = 0; i < combined.length; i++) ...
HashLoop(hash, combined, i) ==
  IF i > Len(combined) THEN hash
  ELSE HashLoop(HashStep(hash, combined[i]), combined, i + 1)

HexDigit(d) == <<"0","1","2","3","4","5","6","7","8","9","a","b","c","d","e","f">>[d + 1]

RECURSIVE HexOf(_)
\* digits of a natural number, most significant first, no leading zero
HexOf(n) == IF n < 16 THEN <<HexDigit(n)>> ELSE Append(HexOf(n \div 16), HexDigit(n % 16))

HexPad4(n) ==
  <<HexDigit(n \div 4096), HexDigit((n \div 256) % 16), HexDigit((n \div 16) % 16), HexDigit(n % 16)>>

\* hex digits of the magnitude hi * 2^16 + lo
HexMagnitude(hi, lo) == IF hi = 0 THEN HexOf(lo) ELSE HexOf(hi) \o HexPad4(lo)

\* Number.prototype.toString(16) of the signed 32-bit value with bit pattern hash
ToString16(hash) ==
  IF hash[1] < 2^15
    THEN HexMagnitude(hash[1], hash[2])
    ELSE LET lo == (Half - hash[2]) % Half
             hi == (Half - 1 - hash[1]) + (IF hash[2] = 0 THEN 1 ELSE 0)
         IN  <<"-">> \o HexMagnitude(hi, lo)

signChallenge(challenge, key) == ToString16(HashLoop(<<0, 0>>, challenge \o key, 1))

\* mutant: verification concatenates the key and the challenge the other way
verifyChallengeSwapped(challenge, response, accessKey) ==
  response = signChallenge(accessKey, challenge)

verifyChallenge(challenge, response, accessKey) ==
  response = signChallenge(challenge, accessKey)

\* the bot's copy of signChallenge (moltly_agent_bot.js)
botSignChallenge(challenge, key) == ToString16(HashLoop(<<0, 0>>, challenge \o key, 1))

(***************************************************************************)
(* Inputs.  Access keys and challenges are short strings: the keys "b" and *)
(* "ab", the challenge "c".                                                *)
(***************************************************************************)
Keys == {<<98>>, <<97, 98>>}
Challenges == {<<99>>}
\* the responses a client may send: the digest under either key, and a wrong one
Responses == {botSignChallenge(c, k) : c \in Challenges, k \in Keys} \cup {<<"0">>}


\* parsed JSON objects a client may put on the wire
AuthMessages ==
  {[type |-> "auth", role |-> r, agentId |-> id, challenge |-> c, response |-> rsp] :
     r \in {"agent", "game"}, id \in Ids, c \in Challenges, rsp \in Responses}
StateMessage == [type |-> "state", data |-> "player"]
\* what the bot sends: the control fields, no type tag
BotAction == [steer |-> 1, jump |-> FALSE, boost |-> FALSE, usePowerUp |-> TRUE]
TaggedAction == [type |-> "action", steer |-> 1, jump |-> TRUE, boost |-> FALSE, usePowerUp |-> FALSE]
\* control fields under a type tag other than "action"
MoveAction == [type |-> "move", steer |-> 1, jump |-> FALSE]
\* shapes no branch of the handler accepts
OtherMessages == {[type |-> "chat"], [steer |-> 1]}
Objects == AuthMessages \cup {StateMessage, BotAction, TaggedAction, MoveAction} \cup OtherMessages

\* A text on the wire: its layout and the JSON value it denotes.  "garbage" is a
\* text that is no JSON.
Garbage == <<"garbage", [type |-> "chat"]>>
RawMessages ==
  {<<"compact", o>> : o \in Objects} \cup {<<"spaced", StateMessage>>, Garbage}

\* JSON.parse: throws on a text that is no JSON, else drops the layout
JSONParse(raw) ==
  IF raw[1] = "garbage" THEN [ok |-> FALSE, value |-> raw[2]] ELSE [ok |-> TRUE, value |-> raw[2]]
\* JSON.stringify: the value in the one layout stringify writes
JSONStringify(value) == <<"compact", value>>

\* data.f of a parsed object (undefined when the field is absent)
Get(data, f) == IF f \in DOMAIN data THEN data[f] ELSE "undefined"
\* data.f !== undefined
Has(data, f) == f \in DOMAIN data

(***************************************************************************)
(* State.                                                                  *)
(***************************************************************************)
VARIABLES
  agents,              \* the Map agents: agentId -> {accessKey, gameWs, agentWs}
  totalConnections,
  lastRateLimitReset,
  now,                 \* Date.now(), ms since the server started
  socks,               \* per socket: the ws object and the closure of its handlers
  last,                \* the frames the last message handler sent, and its socket
  forwarded            \* history: per socket, <<states, actions>> the router forwarded
                       \* for it since lastRateLimitReset was last set

vars == <<agents, totalConnections, lastRateLimitReset, now, socks, last, forwarded>>

\* a socket that has not connected yet
NewSocket ==
  [readyState |-> "CONNECTING", receiving |-> FALSE, admitted |-> FALSE,
   agentId |-> NoId, role |-> NoRole, lastPing |-> 0, rateCount |-> 0,
   heartbeat |-> FALSE, nextTick |-> 0, closeCode |-> CODE_NONE]

\* the kind of a text on the wire: an auth message, a state message, another
\* JSON value, or no JSON
Kind(raw) ==
  IF ~JSONParse(raw).ok THEN "garbage"
  ELSE IF Get(JSONParse(raw).value, "type") \in {"auth", "state"} THEN Get(JSONParse(raw).value, "type")
  ELSE "other"

\* the socket whose message handler ran last, the kind of the message and the
\* frames the handler sent; Quiet after
\* every other handler (none of them sends a frame)
Observed(ws, kind, sent) == [ws |-> ws, kind |-> kind, sent |-> sent]
Quiet == Observed(NoSocket, "none", {})

Init ==
  /\ agents = [id \in {} |-> NoSocket]
  /\ totalConnections = 0
  /\ lastRateLimitReset = 0
  /\ now = 0
  /\ socks = [ws \in Sockets |-> NewSocket]
  /\ last = Quiet
  /\ forwarded = [ws \in Sockets |-> <<0, 0>>]

(***************************************************************************)
(* Helpers of the handlers.                                                *)
(***************************************************************************)
\* closeSafe(ws, code): ws.close(code) when ws is non-null and OPEN; the socket
\* is CLOSING until its close event
closeSafe(S, ws, code) ==
  IF ws # NoSocket /\ S[ws].readyState = "OPEN"
    THEN [S EXCEPT ![ws].readyState = "CLOSING", ![ws].closeCode = code]
    ELSE S

\* ws.send(JSON.stringify(obj)): a frame goes out only on an OPEN socket
Send(S, to, obj) ==
  IF S[to].readyState = "OPEN" THEN {[to |-> to, raw |-> JSONStringify(obj)]} ELSE {}

\* POST /api/agents/register: agents.set(agentId, fresh record)
Register(agentId, accessKey) ==
  /\ agents' = [id \in DOMAIN agents \cup {agentId} |->
                  IF id = agentId
                    THEN [accessKey |-> accessKey, gameWs |-> NoSocket, agentWs |-> NoSocket]
                    ELSE agents[id]]
  /\ last' = Quiet
  /\ UNCHANGED <<totalConnections, lastRateLimitReset, now, socks, forwarded>>

\* mutant: the admission test is off by one
AtCapacityLate(total) == total > MAX_CONNECTIONS

\* the admission test of wss.on('connection')
AtCapacity(total) == total >= MAX_CONNECTIONS

\* The handler of wss.on('connection') for socket ws, as the state it leaves.  A
\* socket over the ceiling gets closeSafe(ws, 1013) and nothing else.
ConnectionResult(ws) ==
  IF AtCapacity(totalConnections)
    THEN [socks |-> closeSafe([socks EXCEPT ![ws].readyState = "OPEN"], ws, CODE_CAPACITY),
          totalConnections |-> totalConnections]
    ELSE [socks |-> [socks EXCEPT ![ws] =
                       [NewSocket EXCEPT !.readyState = "OPEN", !.receiving = TRUE,
                                         !.admitted = TRUE, !.lastPing = now, !.heartbeat = TRUE,
                                         !.nextTick = now + HEARTBEAT_MS \div 2]],
          totalConnections |-> totalConnections + 1]

\* sockets arrive in the order of their numbers
Arriving(ws) ==
  /\ socks[ws].readyState = "CONNECTING"
  /\ \A o \in Sockets : o < ws => socks[o].readyState # "CONNECTING"

Connection(ws) ==
  /\ Arriving(ws)
  /\ socks' = ConnectionResult(ws).socks
  /\ totalConnections' = ConnectionResult(ws).totalConnections
  /\ last' = Quiet
  /\ UNCHANGED <<agents, lastRateLimitReset, now, forwarded>>

(***************************************************************************)
(* ws.on('message').                                                       *)
(***************************************************************************)
\* now - lastRateLimitReset > 1000
WindowElapsed(t, lastReset) == t - lastReset > RATE_WINDOW_MS

\* const limit = role === 'agent' ? RATE_LIMIT_AGENT : RATE_LIMIT_GAME
LimitOf(role) == IF role = "agent" THEN RATE_LIMIT_AGENT ELSE RATE_LIMIT_GAME

\* mutant: the limiter lets one message more through than the ceiling
RateLimitedLate(role, n) == role # NoRole /\ n > LimitOf(role)

\* if (role !== null && rateCount.n >= limit) return
RateLimited(role, n) == role # NoRole /\ n >= LimitOf(role)

\* mutant: the auth branch looks the agent up and never checks the response
AuthenticUnverified(data) == Get(data, "agentId") \in DOMAIN agents

\* !agent || !verifyChallenge(challenge, response, agent.accessKey), negated
Authentic(data) ==
  /\ Get(data, "agentId") \in DOMAIN agents
  /\ verifyChallenge(data.challenge, data.response, agents[data.agentId].accessKey)

\* role = data.role === 'agent' ? 'agent' : 'game'
RequestedRole(data) == IF Get(data, "role") = "agent" THEN "agent" ELSE "game"

\* the socket an agent record holds for a role
Slot(agent, role) == IF role = "game" THEN agent.gameWs ELSE agent.agentWs

\* mutant: the auth branch installs the new socket and closes nobody
EvicteeNobody(agent, role, ws) == NoSocket

\* the previous occupant the auth branch closes: if (slot && slot !== ws)
Evictee(agent, role, ws) ==
  IF Slot(agent, role) # NoSocket /\ Slot(agent, role) # ws THEN Slot(agent, role) ELSE NoSocket

\* agent.gameWs = ws  /  agent.agentWs = ws
Attach(agent, role, ws) ==
  IF role = "game" THEN [agent EXCEPT !.gameWs = ws] ELSE [agent EXCEPT !.agentWs = ws]

AuthFailure == [type |-> "auth_response", status |-> "failure", message |-> "Invalid credentials"]
\* sessionId is a fresh random UUID, opaque to the server
AuthSuccess(role) == [type |-> "auth_response", status |-> "success", sessionId |-> "uuid", role |-> role]

\* mutant: the auth branch attaches the socket to the named session first and
\* verifies the response afterwards
OnAuthEager(S, ws, data) ==
  IF ~Authentic(data)
    THEN [socks |-> S,
          agents |-> IF Get(data, "agentId") \in DOMAIN agents
                       THEN [agents EXCEPT ![data.agentId] = Attach(@, RequestedRole(data), ws)]
                       ELSE agents,
          sent |-> Send(S, ws, AuthFailure)]
    ELSE LET id == data.agentId
             role == RequestedRole(data)
             S1 == [S EXCEPT ![ws].agentId = id, ![ws].role = role]
             S2 == closeSafe(S1, Evictee(agents[id], role, ws), CODE_EVICTED)
         IN  [socks |-> S2,
              agents |-> [agents EXCEPT ![id] = Attach(@, role, ws)],
              sent |-> Send(S2, ws, AuthSuccess(role))]

\* the branch  if (data.type === 'auth') { ... return; }
OnAuth(S, ws, data) ==
  IF ~Authentic(data)
    THEN [socks |-> S, agents |-> agents, sent |-> Send(S, ws, AuthFailure)]
    ELSE LET id == data.agentId
             role == RequestedRole(data)
             S1 == [S EXCEPT ![ws].agentId = id, ![ws].role = role]
             S2 == closeSafe(S1, Evictee(agents[id], role, ws), CODE_EVICTED)
         IN  [socks |-> S2,
              agents |-> [agents EXCEPT ![id] = Attach(@, role, ws)],
              sent |-> Send(S2, ws, AuthSuccess(role))]

\* role === 'agent' && (data.type === 'action' || (data.steer !== undefined && data.jump !== undefined))
IsAction(data) == Get(data, "type") = "action" \/ (Has(data, "steer") /\ Has(data, "jump"))

\* { type: 'action', ...data }: the spread is written after the type
Spread(data) ==
  [f \in DOMAIN data \cup {"type"} |-> IF f \in DOMAIN data THEN data[f] ELSE "action"]

\* const payload = data.type === 'action' ? data : { type: 'action', ...data }
ActionPayload(data) == IF Get(data, "type") = "action" THEN data ELSE Spread(data)

\* mutant: the router sends to whatever socket the slot holds
ForwardUnchecked(S, peer, obj) ==
  IF peer # NoSocket THEN {[to |-> peer, raw |-> JSONStringify(obj)]} ELSE {}

\* if (peer && peer.readyState === WebSocket.OPEN) peer.send(JSON.stringify(obj))
Forward(S, peer, obj) ==
  IF peer # NoSocket /\ S[peer].readyState = "OPEN" THEN Send(S, peer, obj) ELSE {}

\* the handler after the auth branch
OnPayload(S, ws, data) ==
  LET c == S[ws]
      quiet == [socks |-> S, agents |-> agents, sent |-> {}]
  IN  IF c.agentId = NoId \/ c.agentId \notin DOMAIN agents THEN quiet
      ELSE IF c.role = "game" /\ Get(data, "type") = "state"
        THEN [quiet EXCEPT !.sent = Forward(S, agents[c.agentId].agentWs, data)]
      ELSE IF c.role = "agent" /\ IsAction(data)
        THEN [quiet EXCEPT !.sent = Forward(S, agents[c.agentId].gameWs, ActionPayload(data))]
      ELSE quiet

\* mutant: a text that is no JSON is answered with an error frame
OnMessageNoisy(S, ws, raw) ==
  LET parsed == JSONParse(raw)
  IN  IF ~parsed.ok
        THEN [socks |-> S, agents |-> agents, sent |-> Send(S, ws, [type |-> "error"])]
      ELSE IF Get(parsed.value, "type") = "auth" THEN OnAuth(S, ws, parsed.value)
      ELSE OnPayload(S, ws, parsed.value)

\* the handler after the rate limiter let the message pass (rateCount.n++ done)
OnMessage(S, ws, raw) ==
  LET parsed == JSONParse(raw)
  IN  IF ~parsed.ok THEN [socks |-> S, agents |-> agents, sent |-> {}]
      ELSE IF Get(parsed.value, "type") = "auth" THEN OnAuth(S, ws, parsed.value)
      ELSE OnPayload(S, ws, parsed.value)

\* The whole handler for one message, as the state it leaves and the frames it
\* sends: the window test, the limiter, then the dispatch.
MessageResult(ws, raw) ==
  LET c == socks[ws]
      reset == WindowElapsed(now, lastRateLimitReset)
      n == IF reset THEN 0 ELSE c.rateCount
      S0 == [socks EXCEPT ![ws].rateCount = n]
      r == IF RateLimited(c.role, n)
             THEN [socks |-> S0, agents |-> agents, sent |-> {}]
             ELSE OnMessage([S0 EXCEPT ![ws].rateCount = n + 1], ws, raw)
  IN  [socks |-> r.socks, agents |-> r.agents, sent |-> r.sent,
       lastRateLimitReset |-> IF reset THEN now ELSE lastRateLimitReset]

\* A message event can reach the handler of socket ws.  The counter of a
\* connection that has no role yet is unbounded in the code; MaxPending caps it.
MessageEnabled(ws) ==
  /\ socks[ws].admitted
  /\ socks[ws].receiving
  /\ socks[ws].role = NoRole =>
       (IF WindowElapsed(now, lastRateLimitReset) THEN 0 ELSE socks[ws].rateCount) < MaxPending

Message(ws, raw) ==
  /\ MessageEnabled(ws)
  /\ LET r == MessageResult(ws, raw)
     IN  /\ socks' = r.socks
         /\ agents' = r.agents
         /\ lastRateLimitReset' = r.lastRateLimitReset
         /\ last' = Observed(ws, Kind(raw), r.sent)
  /\ UNCHANGED <<totalConnections, now>>

(***************************************************************************)
(* Heartbeat: the setInterval callback and ws.on('pong').                  *)
(***************************************************************************)
\* mutant: the monitor closes as soon as a full interval has elapsed
ExpiredEarly(t, lastPing) == t - lastPing >= HEARTBEAT_MS

\* Date.now() - lastPing > HEARTBEAT_MS
Expired(t, lastPing) == t - lastPing > HEARTBEAT_MS

\* the timer of socket ws is due
TimerDue(ws) == socks[ws].heartbeat /\ now >= socks[ws].nextTick

\* The setInterval callback, as the sockets it leaves: clearInterval and
\* closeSafe(ws, 1000) once the last pong is too old, else a ping and the next tick.
HeartbeatResult(ws) ==
  IF Expired(now, socks[ws].lastPing)
    THEN closeSafe([socks EXCEPT ![ws].heartbeat = FALSE, ![ws].nextTick = 0], ws, CODE_NORMAL)
    ELSE [socks EXCEPT ![ws].nextTick = @ + HEARTBEAT_MS \div 2]

Heartbeat(ws) ==
  /\ TimerDue(ws)
  /\ socks' = HeartbeatResult(ws)
  /\ last' = Quiet
  /\ UNCHANGED <<agents, totalConnections, lastRateLimitReset, now, forwarded>>

Pong(ws) ==
  /\ socks[ws].admitted
  /\ socks[ws].receiving
  /\ socks' = [socks EXCEPT ![ws].lastPing = now]
  /\ last' = Quiet
  /\ UNCHANGED <<agents, totalConnections, lastRateLimitReset, now, forwarded>>

(***************************************************************************)
(* The end of a connection.                                                *)
(***************************************************************************)
\* The peer's close frame (or the loss of the connection) reaches an OPEN socket:
\* the ws library stops reading and the socket is CLOSING until its close event.
PeerClose(ws) ==
  /\ socks[ws].readyState = "OPEN"
  /\ socks' = [socks EXCEPT ![ws].readyState = "CLOSING", ![ws].receiving = FALSE]
  /\ last' = Quiet
  /\ UNCHANGED <<agents, totalConnections, lastRateLimitReset, now, forwarded>>

\* mutant: the error handler releases the connection's place as well
ErrorCounted(ws) ==
  /\ socks[ws].admitted
  /\ socks[ws].receiving
  /\ socks' = [socks EXCEPT ![ws].readyState = "CLOSING", ![ws].receiving = FALSE,
                            ![ws].heartbeat = FALSE, ![ws].nextTick = 0]
  /\ totalConnections' = totalConnections - 1
  /\ last' = Quiet
  /\ UNCHANGED <<agents, lastRateLimitReset, now, forwarded>>

\* ws.on('error'): the library stops reading and tears the socket down
Error(ws) ==
  /\ socks[ws].admitted
  /\ socks[ws].receiving
  /\ socks' = [socks EXCEPT ![ws].readyState = "CLOSING", ![ws].receiving = FALSE,
                            ![ws].heartbeat = FALSE, ![ws].nextTick = 0]
  /\ last' = Quiet
  /\ UNCHANGED <<agents, totalConnections, lastRateLimitReset, now, forwarded>>

\* mutant: the close handler clears the slot of its role whoever holds it
DetachUnguarded(agent, role, ws) ==
  IF role = "game" THEN [agent EXCEPT !.gameWs = NoSocket]
  ELSE IF role = "agent" THEN [agent EXCEPT !.agentWs = NoSocket]
  ELSE agent

\* if (role === 'game' && agent.gameWs === ws) agent.gameWs = null;
\* else if (role === 'agent' && agent.agentWs === ws) agent.agentWs = null;
Detach(agent, role, ws) ==
  IF role = "game" /\ agent.gameWs = ws THEN [agent EXCEPT !.gameWs = NoSocket]
  ELSE IF role = "agent" /\ agent.agentWs = ws THEN [agent EXCEPT !.agentWs = NoSocket]
  ELSE agent

\* The close event of a CLOSING socket.  A rejected socket has no handler.  The
\* closure of an admitted one (agentId, role, lastPing, rateCount, the timer) is
\* garbage once its last handler has run: the model clears it.
Close(ws) ==
  /\ socks[ws].readyState = "CLOSING"
  /\ LET c == socks[ws]
     IN  IF ~c.admitted
           THEN /\ socks' = [socks EXCEPT ![ws].readyState = "CLOSED"]
                /\ UNCHANGED <<agents, totalConnections>>
           ELSE /\ totalConnections' = totalConnections - 1
                /\ socks' = [socks EXCEPT ![ws] =
                     [NewSocket EXCEPT !.readyState = "CLOSED", !.admitted = TRUE,
                                       !.closeCode = c.closeCode]]
                /\ agents' = IF c.agentId # NoId /\ c.agentId \in DOMAIN agents
                               THEN [agents EXCEPT ![c.agentId] = Detach(@, c.role, ws)]
                               ELSE agents
  /\ last' = Quiet
  /\ UNCHANGED <<lastRateLimitReset, now, forwarded>>

\* Time passes once every timer that is due has run.
Advance(d) ==
  /\ now + d <= MaxTime
  /\ \A ws \in Sockets : ~TimerDue(ws)
  /\ now' = now + d
  /\ last' = Quiet
  /\ UNCHANGED <<agents, totalConnections, lastRateLimitReset, socks, forwarded>>

\* The history of what the router forwarded in the current window of the shared
\* clock: a message that sets lastRateLimitReset starts a new window for every
\* socket; a frame sent to a socket other than the sender's own auth_response is
\* a forward, counted as a state or as an action by the role of the sender.
Counted(ws, raw) ==
  LET r == MessageResult(ws, raw)
      base == IF r.lastRateLimitReset # lastRateLimitReset
                THEN [s \in Sockets |-> <<0, 0>>] ELSE forwarded
      routed == \E f \in r.sent : f.raw[2] \notin {AuthFailure} \cup {AuthSuccess(role) : role \in {"game", "agent"}}
  IN  IF ~routed THEN base
      ELSE IF socks[ws].role = "game"
        THEN [base EXCEPT ![ws] = <<@[1] + 1, @[2]>>]
        ELSE [base EXCEPT ![ws] = <<@[1], @[2] + 1>>]

(***************************************************************************)
(* Specifications.                                                         *)
(*                                                                         *)
(* Spec is the relay without the clock: registrations of agent "x" (each   *)
(* one draws a key), MaxSockets sockets, every message, and the ends of    *)
(* connections.                                                            *)
(*                                                                         *)
(* SpecRate is the rate limiter: one registration, two sockets, the        *)
(* messages that authenticate or are routed, the heartbeat timers, time    *)
(* passing a little more than one window at a time, and the history of     *)
(* forwards.                                                               *)
(*                                                                         *)
(* SpecHeartbeat is the heartbeat monitor: one connection with its pongs,  *)
(* its messages in every auth state, errors, and time passing in quarters  *)
(* of HEARTBEAT_MS.                                                        *)
(***************************************************************************)
Next ==
  \/ \E key \in Keys : Register("x", key)
  \/ \E ws \in Sockets : Connection(ws)
  \/ \E ws \in Sockets, raw \in RawMessages : Message(ws, raw) /\ UNCHANGED forwarded
  \/ \E ws \in Sockets : PeerClose(ws)
  \/ \E ws \in Sockets : Close(ws)

Spec == Init /\ [][Next]_vars

\* the access key the clock specifications register, and the client's digest for it
ClockKey == <<98>>
ValidAuths ==
  {a \in AuthMessages : a.agentId = "x" /\ a.response = botSignChallenge(a.challenge, ClockKey)}
ClockMessages == {<<"compact", m>> : m \in ValidAuths \cup {StateMessage, BotAction}}

\* sockets that connect under SpecRate
RateSockets == 2
NextRate ==
  \/ "x" \notin DOMAIN agents /\ Register("x", ClockKey)
  \/ \E ws \in 1..RateSockets : Connection(ws)
  \/ \E ws \in Sockets, raw \in ClockMessages : Message(ws, raw) /\ forwarded' = Counted(ws, raw)
  \/ \E ws \in Sockets : Heartbeat(ws)
  \/ \E ws \in Sockets : Close(ws)
  \/ Advance(RATE_WINDOW_MS + 1)

SpecRate == Init /\ [][NextRate]_vars

\* sockets that connect under SpecHeartbeat
HeartbeatSockets == 1
NextHeartbeat ==
  \/ Register("x", ClockKey)
  \/ \E ws \in 1..HeartbeatSockets : Connection(ws)
  \/ \E ws \in Sockets, raw \in ClockMessages \cup {Garbage} : Message(ws, raw) /\ UNCHANGED forwarded
  \/ \E ws \in Sockets : Heartbeat(ws)
  \/ \E ws \in Sockets : Pong(ws)
  \/ \E ws \in Sockets : PeerClose(ws)
  \/ \E ws \in Sockets : Error(ws)
  \/ \E ws \in Sockets : Close(ws)
  \/ Advance(HEARTBEAT_MS \div 4)

SpecHeartbeat == Init /\ [][NextHeartbeat]_vars

\* SpecCount is the connection counter: MaxSockets sockets against the
\* ceiling, authentication as game (so that a newer socket evicts an older
\* one), errors, heartbeat timeouts, closes, and time passing in half intervals.
GameAuths == {<<"compact", a>> : a \in {v \in ValidAuths : v.role = "game"}}
NextCount ==
  \/ "x" \notin DOMAIN agents /\ Register("x", ClockKey)
  \/ \E ws \in Sockets : Connection(ws)
  \/ \E ws \in Sockets, raw \in GameAuths : Message(ws, raw) /\ UNCHANGED forwarded
  \/ \E ws \in Sockets : Heartbeat(ws)
  \/ \E ws \in Sockets : Error(ws)
  \/ \E ws \in Sockets : PeerClose(ws)
  \/ \E ws \in Sockets : Close(ws)
  \/ Advance(HEARTBEAT_MS \div 2)

SpecCount == Init /\ [][NextCount]_vars

\* SpecSign is the handshake of an honest client: a session under any key, one
\* connection, and auth messages whose response the bot's signChallenge
\* computes from a challenge of its choice and the session's key.
\* longest challenge and longest key
MaxSignLen == 3
\* the characters "a" and "z"
SignAlphabet == {97, 122}
SignStrings == UNION {[1..n -> SignAlphabet] : n \in 0..MaxSignLen}
SignKeys == SignStrings \ {<< >>}
\* the auth message of runBot for a challenge, signed under key
HonestAuth(challenge, key) ==
  <<"compact", [type |-> "auth", role |-> "agent", agentId |-> "x", challenge |-> challenge,
                response |-> botSignChallenge(challenge, key)]>>
\* sockets that connect under SpecSign
SignSockets == 1
NextSign ==
  \/ \E key \in SignKeys : "x" \notin DOMAIN agents /\ Register("x", key)
  \/ \E ws \in 1..SignSockets : Connection(ws)
  \/ \E ws \in Sockets, c \in SignStrings :
       /\ "x" \in DOMAIN agents
       /\ Message(ws, HonestAuth(c, agents["x"].accessKey))
       /\ UNCHANGED forwarded
  \/ \E ws \in Sockets : PeerClose(ws)
  \/ \E ws \in Sockets : Close(ws)

SpecSign == Init /\ [][NextSign]_vars

\* SpecStarve is the limiter over unbounded time: two connections that
\* authenticate once and then send payloads, their heartbeat timers and pongs,
\* and time passing in half intervals.  The handlers read the clock only in
\* differences (now - lastRateLimitReset, now - lastPing, the delay to the next
\* tick), so the passing of d ms is modelled by ageing every stamp by d and
\* keeping now; ages beyond StampCap, larger than every threshold, are kept at
\* StampCap.  Timers fire when due, time passes, pongs arrive and every
\* connection keeps sending.
StampCap == 2 * HEARTBEAT_MS
Aged(stamp, d) == IF stamp - d < now - StampCap THEN now - StampCap ELSE stamp - d
Elapse(d) ==
  /\ \A ws \in Sockets : ~TimerDue(ws)
  /\ lastRateLimitReset' = Aged(lastRateLimitReset, d)
  /\ socks' = [ws \in Sockets |->
                IF socks[ws].heartbeat
                  THEN [socks[ws] EXCEPT !.lastPing = Aged(@, d), !.nextTick = @ - d]
                  ELSE socks[ws]]
  /\ last' = Quiet
  /\ UNCHANGED <<agents, totalConnections, now, forwarded>>

\* the first auth message of a connection
FirstAuth(ws) ==
  /\ socks[ws].role = NoRole
  /\ \E a \in ValidAuths : Message(ws, JSONStringify(a))
  /\ UNCHANGED forwarded
\* a state message or an action of a connection that has a role
Payload(ws) ==
  /\ socks[ws].role # NoRole
  /\ \E m \in {StateMessage, BotAction} : Message(ws, JSONStringify(m))
  /\ UNCHANGED forwarded

\* sockets that connect under SpecStarve
StarveSockets == 2
NextStarve ==
  \/ "x" \notin DOMAIN agents /\ Register("x", ClockKey)
  \/ \E ws \in 1..StarveSockets : Connection(ws)
  \/ \E ws \in Sockets : FirstAuth(ws)
  \/ \E ws \in Sockets : Payload(ws)
  \/ \E ws \in Sockets : Heartbeat(ws)
  \/ \E ws \in Sockets : Pong(ws)
  \/ \E ws \in Sockets : Close(ws)
  \/ Elapse(HEARTBEAT_MS \div 2)

SpecStarve ==
  /\ Init /\ [][NextStarve]_vars
  /\ WF_vars(Elapse(HEARTBEAT_MS \div 2))
  /\ \A ws \in Sockets :
       WF_vars(Heartbeat(ws)) /\ WF_vars(Pong(ws)) /\ WF_vars(Payload(ws))


(***************************************************************************)
(* Claims.  A claim about what a handler does is stated over every         *)
(* reachable state and every input of the handler: the handler's result    *)
(* in that state is what the claim says.                                   *)
(***************************************************************************)
Roles == {"game", "agent"}
Other(role) == IF role = "game" THEN "agent" ELSE "game"
\* the frame that carries obj to socket ws
Frame(ws, obj) == [to |-> ws, raw |-> JSONStringify(obj)]
\* the handler answers socket ws that it is authenticated in this role
Welcomes(r, ws, role) == Frame(ws, AuthSuccess(role)) \in r.sent

\* C1: when a slot of a session holds an OPEN socket A and another socket B
\* authenticates for the same agent id and role, A is closed with code 4000,
\* the slot holds B afterwards, and the slot of the other role is unchanged.
C1_RoleEviction ==
  \A B \in Sockets, raw \in RawMessages :
    MessageEnabled(B) =>
      LET r == MessageResult(B, raw)
      IN  \A role \in Roles :
            Welcomes(r, B, role) =>
              LET id == JSONParse(raw).value.agentId
                  A == Slot(agents[id], role)
              IN  (A # NoSocket /\ A # B /\ socks[A].readyState = "OPEN") =>
                    /\ r.socks[A].readyState = "CLOSING"
                    /\ r.socks[A].closeCode = CODE_EVICTED
                    /\ Slot(r.agents[id], role) = B
                    /\ Slot(r.agents[id], Other(role)) = Slot(agents[id], Other(role))

\* C1 witness: B has just authenticated as agent for "x" and holds the slot; A,
\* the socket it displaced, is closing with code 4000.
C1_Witness ==
  \E A, B \in Sockets :
    /\ A # B
    /\ last = Observed(B, "auth", {Frame(B, AuthSuccess("agent"))})
    /\ socks[A].role = "agent" /\ socks[A].agentId = "x"
    /\ socks[A].readyState = "CLOSING" /\ socks[A].closeCode = CODE_EVICTED
    /\ socks[B].readyState = "OPEN"
    /\ agents["x"].agentWs = B

\* C2: totalConnections never exceeds MAX_CONNECTIONS; a socket that arrives at
\* the ceiling is closed with code 1013, leaves totalConnections as it was and
\* gets no handlers, timer or counter; a socket that arrives below it is admitted.
C2_AdmissionCeiling ==
  /\ totalConnections <= MAX_CONNECTIONS
  /\ \A ws \in Sockets :
       socks[ws].closeCode = CODE_CAPACITY =>
         ~socks[ws].admitted /\ ~socks[ws].heartbeat /\ socks[ws].rateCount = 0
  /\ \A ws \in Sockets :
       Arriving(ws) =>
         LET r == ConnectionResult(ws)
         IN  IF totalConnections >= MAX_CONNECTIONS
               THEN /\ r.socks[ws] = [NewSocket EXCEPT !.readyState = "CLOSING",
                                                       !.closeCode = CODE_CAPACITY]
                    /\ r.totalConnections = totalConnections
               ELSE /\ r.socks[ws].admitted /\ r.socks[ws].readyState = "OPEN"
                    /\ r.socks[ws].heartbeat
                    /\ r.totalConnections = totalConnections + 1

\* C2 witness: MAX_CONNECTIONS connections are counted and a further socket has
\* been turned away with code 1013.
C2_Witness ==
  /\ totalConnections = MAX_CONNECTIONS
  /\ \E ws \in Sockets :
       socks[ws].closeCode = CODE_CAPACITY /\ socks[ws].readyState = "CLOSING"
  /\ Cardinality({ws \in Sockets : socks[ws].admitted /\ socks[ws].readyState = "OPEN"})
       = MAX_CONNECTIONS

\* C3: in every window of the limiter's clock, the router forwards at most
\* RATE_LIMIT_GAME state messages for a game connection and at most
\* RATE_LIMIT_AGENT actions for an agent connection, whatever the other
\* connections do; a message over the ceiling is dropped and nothing is sent, to
\* the sender or to anyone.
C3_RateCeiling ==
  /\ \A ws \in Sockets :
       forwarded[ws][1] <= RATE_LIMIT_GAME /\ forwarded[ws][2] <= RATE_LIMIT_AGENT
  /\ \A ws \in Sockets, raw \in ClockMessages :
       ( /\ MessageEnabled(ws)
         /\ ~WindowElapsed(now, lastRateLimitReset)
         /\ \/ socks[ws].role = "game" /\ forwarded[ws][1] = RATE_LIMIT_GAME
            \/ socks[ws].role = "agent" /\ forwarded[ws][2] = RATE_LIMIT_AGENT )
       => /\ MessageResult(ws, raw).sent = {}
          /\ Counted(ws, raw) = forwarded

\* C3 witness: a game connection whose agent peer is OPEN has had
\* RATE_LIMIT_GAME state messages forwarded in this window, the peer has had an
\* action forwarded in the same window, and the game connection's next message
\* went nowhere.
C3_Witness ==
  \E g, a \in Sockets :
    /\ socks[g].role = "game" /\ socks[a].role = "agent"
    /\ socks[g].readyState = "OPEN" /\ socks[a].readyState = "OPEN"
    /\ "x" \in DOMAIN agents
    /\ agents["x"].gameWs = g /\ agents["x"].agentWs = a
    /\ forwarded[g][1] = RATE_LIMIT_GAME
    /\ forwarded[a][2] > 0
    /\ last = Observed(g, "state", {})

\* C4: a tick of the heartbeat monitor closes the connection with code 1000 and
\* cancels the timer exactly when more than HEARTBEAT_MS has elapsed since the
\* last pong (since connect if there was none), and otherwise leaves it open;
\* ticks come every half interval, so a monitored OPEN connection is never more
\* than one interval and a half past its last pong; no message, in any auth
\* state, moves lastPing.
C4_HeartbeatReclamation ==
  /\ \A ws \in Sockets :
       TimerDue(ws) =>
         LET c == socks[ws]
             r == HeartbeatResult(ws)[ws]
         IN  IF now - c.lastPing > HEARTBEAT_MS
               THEN /\ ~r.heartbeat
                    /\ c.readyState = "OPEN" => r.readyState = "CLOSING" /\ r.closeCode = CODE_NORMAL
               ELSE /\ r.heartbeat
                    /\ r.readyState = c.readyState /\ r.closeCode = c.closeCode
                    /\ r.nextTick = c.nextTick + HEARTBEAT_MS \div 2
  /\ \A ws \in Sockets :
       socks[ws].heartbeat /\ socks[ws].readyState = "OPEN" =>
         now - socks[ws].lastPing <= HEARTBEAT_MS + HEARTBEAT_MS \div 2
  /\ \A ws \in Sockets, raw \in ClockMessages \cup {Garbage} :
       MessageEnabled(ws) => MessageResult(ws, raw).socks[ws].lastPing = socks[ws].lastPing

\* C4 witness: an authenticated connection that sent messages and answered a
\* probe once has been closed by its monitor with code 1000, more than one
\* interval and at most one and a half after that pong.
C4_Witness ==
  \E ws \in Sockets :
    /\ socks[ws].role = "game" /\ socks[ws].rateCount > 0
    /\ socks[ws].lastPing > 0
    /\ socks[ws].readyState = "CLOSING" /\ socks[ws].closeCode = CODE_NORMAL
    /\ ~socks[ws].heartbeat
    /\ now - socks[ws].lastPing > HEARTBEAT_MS
    /\ now - socks[ws].lastPing <= HEARTBEAT_MS + HEARTBEAT_MS \div 2

\* the limiter lets the next message of socket ws pass
Passes(ws) ==
  ~RateLimited(socks[ws].role,
               IF WindowElapsed(now, lastRateLimitReset) THEN 0 ELSE socks[ws].rateCount)
\* the sockets other than ws are as they were, and so is ws but for its counter
OnlyCounted(r, ws) ==
  /\ \A o \in Sockets \ {ws} : r.socks[o] = socks[o]
  /\ r.socks[ws] = [socks[ws] EXCEPT !.rateCount = r.socks[ws].rateCount]

\* C5: a state message of a connection authenticated as game under identity X
\* that the limiter lets pass is delivered unchanged to exactly Session X's
\* agentWs when that socket is present and OPEN, and to nobody otherwise; never
\* to a socket of another session, and never back to the sender.
C5_GameToAgentRouting ==
  \A ws \in Sockets, raw \in RawMessages :
    ( /\ MessageEnabled(ws) /\ Passes(ws)
      /\ socks[ws].role = "game"
      /\ Kind(raw) = "state" )
    => LET r == MessageResult(ws, raw)
           X == socks[ws].agentId
           peer == agents[X].agentWs
       IN  /\ r.sent = IF peer # NoSocket /\ socks[peer].readyState = "OPEN"
                         THEN {Frame(peer, JSONParse(raw).value)} ELSE {}
           /\ \A f \in r.sent : f.to # ws /\ socks[f.to].agentId = X

\* C6: every frame the router delivers for an agent connection has type
\* "action" and carries the fields of the message, whether the message was
\* tagged "action" or recognised by its steer and jump fields.
C6_CanonicalActionEnvelope ==
  \A ws \in Sockets, raw \in RawMessages :
    ( /\ MessageEnabled(ws)
      /\ socks[ws].role = "agent"
      /\ Kind(raw) = "other" )
    => LET data == JSONParse(raw).value
       IN  \A f \in MessageResult(ws, raw).sent :
             /\ f.raw[2].type = "action"
             /\ \A k \in DOMAIN data \ {"type"} : k \in DOMAIN f.raw[2] /\ f.raw[2][k] = data[k]

\* C7: when the slot of the peer role is empty or holds a socket that is not
\* OPEN, a state message of the OPEN game connection (an action of the OPEN
\* agent connection) is accepted and dropped: no frame goes to any socket, the
\* sender stays OPEN with its role and identity, and no slot changes.
C7_AbsentPeerDropped ==
  \A ws \in Sockets, raw \in RawMessages :
    ( /\ MessageEnabled(ws)
      /\ socks[ws].readyState = "OPEN"
      /\ socks[ws].role \in Roles
      /\ \/ socks[ws].role = "game" /\ Kind(raw) = "state"
         \/ socks[ws].role = "agent" /\ Kind(raw) = "other"
      /\ LET peer == Slot(agents[socks[ws].agentId], Other(socks[ws].role))
         IN  peer = NoSocket \/ socks[peer].readyState # "OPEN" )
    => LET r == MessageResult(ws, raw)
       IN  /\ r.sent = {}
           /\ r.agents = agents
           /\ OnlyCounted(r, ws)
           /\ r.socks[ws].rateCount \in {socks[ws].rateCount, socks[ws].rateCount + 1}

\* C7 witness: the agent connection of session "x" has closed and left its slot
\* empty; the game connection, still OPEN and in its slot, has sent a state
\* message and no frame went out.
C7_Witness ==
  \E A, B \in Sockets :
    /\ A # B
    /\ socks[B].readyState = "CLOSED" /\ socks[B].admitted
    /\ "x" \in DOMAIN agents
    /\ agents["x"].agentWs = NoSocket /\ agents["x"].gameWs = A
    /\ socks[A].readyState = "OPEN" /\ socks[A].role = "game" /\ socks[A].agentId = "x"
    /\ last = Observed(A, "state", {})

\* C8: an auth message of an OPEN connection without a role, naming an identity
\* that has no session or carrying a response other than the digest of the
\* challenge under the session's key, is answered with auth_response failure;
\* the connection stays OPEN without role or identity, no slot changes and no
\* other socket is touched.
C8_AuthFailure ==
  \A ws \in Sockets, raw \in RawMessages :
    ( /\ MessageEnabled(ws)
      /\ socks[ws].readyState = "OPEN"
      /\ socks[ws].role = NoRole
      /\ Kind(raw) = "auth"
      /\ LET d == JSONParse(raw).value
         IN  \/ d.agentId \notin DOMAIN agents
             \/ d.response # signChallenge(d.challenge, agents[d.agentId].accessKey) )
    => LET r == MessageResult(ws, raw)
       IN  /\ r.sent = {Frame(ws, AuthFailure)}
           /\ r.agents = agents
           /\ OnlyCounted(r, ws)
           /\ r.socks[ws].readyState = "OPEN"
           /\ r.socks[ws].role = NoRole /\ r.socks[ws].agentId = NoId

\* C8 witness: an OPEN connection without a role has sent MaxPending messages,
\* the last one an auth message answered with failure, while session "x" exists.
C8_Witness ==
  \E ws \in Sockets :
    /\ "x" \in DOMAIN agents
    /\ socks[ws].readyState = "OPEN"
    /\ socks[ws].role = NoRole /\ socks[ws].agentId = NoId
    /\ socks[ws].rateCount = MaxPending
    /\ last = Observed(ws, "auth", {Frame(ws, AuthFailure)})

\* C9: a connection that has a role keeps its role and identity whatever
\* message it sends, and its auth messages are ignored: no frame, no slot
\* change, no socket closed.
C9_StateMachineShape ==
  \A ws \in Sockets, raw \in RawMessages :
    (MessageEnabled(ws) /\ socks[ws].role \in Roles)
    => LET r == MessageResult(ws, raw)
       IN  /\ r.socks[ws].role = socks[ws].role
           /\ r.socks[ws].agentId = socks[ws].agentId
           /\ Kind(raw) = "auth" =>
                /\ r.sent = {}
                /\ r.agents = agents
                /\ \A o \in Sockets : r.socks[o].readyState = socks[o].readyState

\* C10: for every identity and role at most one OPEN connection is
\* authenticated in that role under that identity, and it is the socket the
\* session's slot for the role holds.
C10_OneSocketPerRole ==
  \A id \in DOMAIN agents, role \in Roles :
    LET live == {ws \in Sockets : /\ socks[ws].readyState = "OPEN"
                                  /\ socks[ws].role = role
                                  /\ socks[ws].agentId = id}
    IN  /\ Cardinality(live) <= 1
        /\ \A ws \in live : Slot(agents[id], role) = ws

\* C11: once a session exists its record stays and its secret never changes;
\* its slots change only in a step that handles an auth message or processes a
\* close event, never in a registration.
C11_SessionStable ==
  [][\A id \in DOMAIN agents :
       /\ id \in DOMAIN agents'
       /\ agents'[id].accessKey = agents[id].accessKey
       /\ agents'[id] # agents[id] =>
            \/ last'.kind = "auth"
            \/ \E ws \in Sockets :
                 socks[ws].readyState = "CLOSING" /\ socks'[ws].readyState = "CLOSED"]_vars

\* C12: totalConnections is the number of admitted connections whose close
\* event has not been processed: an error, a heartbeat timeout or an eviction
\* leaves it as it is until the close event, a rejected connection never
\* counts, and it is never negative.
C12_CounterAccounting ==
  /\ totalConnections >= 0
  /\ totalConnections =
       Cardinality({ws \in Sockets : socks[ws].admitted /\ socks[ws].readyState # "CLOSED"})
  /\ \A ws \in Sockets :
       socks[ws].closeCode = CODE_CAPACITY => ~socks[ws].admitted

\* C12 witness: of three sockets one was turned away at the ceiling, one has
\* been evicted and has had its close event, and one has had an error and not
\* yet its close event: it is the one connection counted.
C12_Witness ==
  \E r, e, c \in Sockets :
    /\ socks[r].closeCode = CODE_CAPACITY /\ ~socks[r].admitted
    /\ socks[c].readyState = "CLOSED" /\ socks[c].admitted /\ socks[c].closeCode = CODE_EVICTED
    /\ socks[e].readyState = "CLOSING" /\ socks[e].admitted
    /\ ~socks[e].heartbeat /\ socks[e].closeCode = CODE_NONE
    /\ totalConnections = 1

RECURSIVE PlainHash(_, _)
\* h := h * 31 + charCode over the first n characters of s, in unbounded
\* arithmetic (no wrap occurs for n <= 5 over SignAlphabet)
PlainHash(s, n) == IF n = 0 THEN 0 ELSE PlainHash(s, n - 1) * 31 + s[n]
\* n times the character "z"
Zs(n) == [i \in 1..n |-> 122]

\* C13: for every challenge and secret the server verifies the digest it signs,
\* the bot's signChallenge returns the server's digest, the digest is the hex
\* text of h := h * 31 + charCode wrapped to a signed 32-bit integer, and the
\* auth message of a client that signs with the session's key is answered with
\* success.
C13_FingerprintRoundTrip ==
  /\ \A c \in SignStrings, k \in SignStrings :
       /\ verifyChallenge(c, signChallenge(c, k), k)
       /\ botSignChallenge(c, k) = signChallenge(c, k)
       /\ Len(c \o k) <= 5 => signChallenge(c, k) = HexOf(PlainHash(c \o k, Len(c \o k)))
  /\ signChallenge(Zs(3), Zs(3)) = <<"-", "2", "8", "e", "0", "4", "2", "4", "0">>
  /\ signChallenge(Zs(4), Zs(3)) = <<"c", "d", "7", "f", "a", "b", "a">>
  /\ signChallenge(Zs(4), Zs(4)) = <<"-", "7", "1", "d", "8", "a", "3", "0", "0">>
  /\ \A ws \in Sockets, c \in SignStrings :
       ( /\ "x" \in DOMAIN agents
         /\ MessageEnabled(ws) /\ Passes(ws)
         /\ socks[ws].readyState = "OPEN" )
       => LET r == MessageResult(ws, HonestAuth(c, agents["x"].accessKey))
          IN  /\ r.sent = {Frame(ws, AuthSuccess("agent"))}
              /\ r.socks[ws].role = "agent" /\ r.socks[ws].agentId = "x"
              /\ r.agents["x"].agentWs = ws

\* C13 witness: a client has authenticated under the key "zzz", with which the
\* hash wraps for every challenge of full length.
C13_Witness ==
  \E ws \in Sockets :
    /\ "x" \in DOMAIN agents
    /\ agents["x"].accessKey = Zs(3)
    /\ agents["x"].agentWs = ws
    /\ socks[ws].role = "agent" /\ socks[ws].readyState = "OPEN"
    /\ last = Observed(ws, "auth", {Frame(ws, AuthSuccess("agent"))})

\* C14: the close event of a socket leaves every slot that does not refer to
\* that socket as it is; in particular, when B has replaced A in a slot, the
\* close handler of A leaves the slot pointing at B.
C14_DetachGuard ==
  [][\A ws \in Sockets :
       (socks[ws].readyState = "CLOSING" /\ socks'[ws].readyState = "CLOSED") =>
         \A id \in DOMAIN agents, role \in Roles :
           Slot(agents[id], role) # ws => Slot(agents'[id], role) = Slot(agents[id], role)]_vars

\* C14 witness: A was evicted from the agent slot by B and has had its close
\* event; the slot still holds B, which is OPEN.
C14_Witness ==
  \E A, B \in Sockets :
    /\ A # B
    /\ socks[A].readyState = "CLOSED" /\ socks[A].closeCode = CODE_EVICTED
    /\ "x" \in DOMAIN agents
    /\ agents["x"].agentWs = B
    /\ socks[B].readyState = "OPEN" /\ socks[B].role = "agent" /\ socks[B].agentId = "x"

\* C15: once the close event of a connection has been processed, no slot of
\* any session refers to its socket.
C15_CloseDetaches ==
  \A ws \in Sockets :
    socks[ws].readyState = "CLOSED" =>
      \A id \in DOMAIN agents, role \in Roles : Slot(agents[id], role) # ws

\* C18: a text that is no JSON, received in any connection state, sends no
\* frame, closes nothing and leaves role, identity and every session as they
\* are.
C18_MalformedNoOp ==
  \A ws \in Sockets :
    MessageEnabled(ws) =>
      LET r == MessageResult(ws, Garbage)
      IN  /\ r.sent = {}
          /\ r.agents = agents
          /\ OnlyCounted(r, ws)

\* C18 witness: an authenticated agent connection whose game peer is OPEN has
\* sent a text that is no JSON, within its ceiling, and no frame went out.
C18_Witness ==
  \E ws, g \in Sockets :
    /\ ws # g
    /\ socks[ws].role = "agent" /\ socks[ws].readyState = "OPEN"
    /\ socks[ws].rateCount < RATE_LIMIT_AGENT
    /\ "x" \in DOMAIN agents
    /\ agents["x"].agentWs = ws /\ agents["x"].gameWs = g
    /\ socks[g].readyState = "OPEN"
    /\ last = Observed(ws, "garbage", {})

\* C19: a connection without role and identity sends, by its message, nothing
\* but an auth_response to itself; unless the message is an auth message with
\* the digest under the named session's key, no slot changes and no other
\* socket is touched.
C19_AuthGatesRouting ==
  \A ws \in Sockets, raw \in RawMessages :
    (MessageEnabled(ws) /\ socks[ws].role = NoRole /\ socks[ws].agentId = NoId) =>
      LET r == MessageResult(ws, raw)
          d == JSONParse(raw).value
          honest == /\ Kind(raw) = "auth"
                    /\ d.agentId \in DOMAIN agents
                    /\ d.response = signChallenge(d.challenge, agents[d.agentId].accessKey)
      IN  /\ \A f \in r.sent : f.to = ws /\ f.raw[2].type = "auth_response"
          /\ ~honest =>
               /\ r.agents = agents
               /\ OnlyCounted(r, ws)
               /\ r.socks[ws].role = NoRole /\ r.socks[ws].agentId = NoId
               /\ r.sent \subseteq {Frame(ws, AuthFailure)}

\* C19 witness: session "x" has an OPEN agent connection and an empty game
\* slot; a connection without a role has sent a state message, and no frame
\* went out.
C19_Witness ==
  \E ws, a \in Sockets :
    /\ ws # a
    /\ "x" \in DOMAIN agents
    /\ agents["x"].agentWs = a /\ agents["x"].gameWs = NoSocket
    /\ socks[a].readyState = "OPEN" /\ socks[a].role = "agent"
    /\ socks[ws].readyState = "OPEN" /\ socks[ws].role = NoRole
    /\ last = Observed(ws, "state", {})

\* C20: every socket is held by at most one slot of the registry, the slot of
\* the connection's identity and role, and no message of a connection is
\* forwarded to the connection itself.
C20_OneSlotPerSocket ==
  \A ws \in Sockets :
    LET refs == {p \in (DOMAIN agents) \X Roles : Slot(agents[p[1]], p[2]) = ws}
    IN  /\ Cardinality(refs) <= 1
        /\ \A p \in refs : socks[ws].agentId = p[1] /\ socks[ws].role = p[2]
        /\ \A raw \in RawMessages :
             MessageEnabled(ws) =>
               \A f \in MessageResult(ws, raw).sent :
                 f.to = ws => f.raw[2].type = "auth_response"

\* C16: messages a connection sent before it authenticated do not count
\* towards its ceiling: right after a connection without a role has
\* authenticated as game, with the agent peer of its session OPEN, its next
\* state message is forwarded.
C16_CountingStartsAtAuth ==
  [][\A ws \in Sockets :
       ( /\ socks[ws].role = NoRole
         /\ last' = Observed(ws, "auth", {Frame(ws, AuthSuccess("game"))})
         /\ socks'[ws].readyState = "OPEN" )
       => \A peer \in Sockets \ {ws} :
            (agents'[socks'[ws].agentId].agentWs = peer /\ socks'[peer].readyState = "OPEN")
            => (MessageResult(ws, JSONStringify(StateMessage)).sent
                  = {Frame(peer, StateMessage)})']_vars

\* an OPEN connection with a role whose counter is at its ceiling
AtCeiling(ws) ==
  /\ socks[ws].readyState = "OPEN"
  /\ socks[ws].role \in Roles
  /\ socks[ws].rateCount >= LimitOf(socks[ws].role)

\* C17: a connection that has reached its ceiling and keeps sending eventually
\* has its counter reset (or ends), whatever the other connections send.
C17_NoStarvation ==
  \A ws \in Sockets : AtCeiling(ws) ~> ~AtCeiling(ws)

====
